---------------------------- MODULE Spec2Model ----------------------------
(***************************************************************************)
(* A model of the F3 organization map (src/src/main.ts): the entity maps   *)
(* built by init, the memoized descendant sets, the point aggregation, the *)
(* boundary shape of every displayed organization, and the navigation      *)
(* state (currentLevelIndex, selectedPath) with its URL serialization.     *)
(*                                                                         *)
(* Conventions.                                                            *)
(*  - A JavaScript string is a sequence of one-character strings.          *)
(*  - A JavaScript number that may be NaN is a record [nan, v].            *)
(*  - A value that may be null/undefined is None (<<>>) or Some(x).        *)
(*  - A Map is a function with a finite domain; orgById, whose iteration   *)
(*    order the code uses, is the sequence of its values in insertion      *)
(*    order.                                                               *)
(***************************************************************************)
EXTENDS Integers, Sequences, FiniteSets, TLC

VARIABLES
    apiOrgs,               \* what GET /v1/org returns (all pages, in order)
    apiLocations,          \* what GET /v1/location returns
    apiEvents,             \* what GET /v1/event returns
    phase,                 \* "loading" | "ready" | "failed": where init() is
    url,                   \* window.location.search as a list of <<key, value>>
    currentLevelIndex,     \* main.ts:119
    selectedPath,          \* main.ts:120
    orgById,               \* main.ts:122
    childrenByParent,      \* main.ts:123
    orgDescendantsCache,   \* main.ts:124
    locationById,          \* main.ts:125
    eventsByOrgId,         \* main.ts:126
    layerGroup,            \* the polygons on the map, each with its click handler's org
    breadcrumb,            \* the crumbs rendered by renderBreadcrumb
    backDisabled,          \* backBtn.disabled
    infoPanel,             \* what the info panel shows
    prior,                 \* history: the navigation state the page was reloaded from
    ret,                   \* the last value returned to a direct caller of a function
    lastEvent,             \* history: the UI event the last step handled, and the state it found
    apiPages,              \* the pages a listing operation of the data source serves
    fetchPc,               \* "idle" | "request" | "await" | "returned" | "rejected": where fetchPaged is
    pageIndex,             \* main.ts:200
    results,               \* main.ts:198
    requested,             \* history: the page indices fetchPaged has requested, in order
    callStack,             \* the active calls of getDescendantOrgIds, the innermost last
    walk                   \* the parent walk of restoreStateFromUrl: its current and path

vars == <<apiOrgs, apiLocations, apiEvents, phase, url, currentLevelIndex,
          selectedPath, orgById, childrenByParent, orgDescendantsCache,
          locationById, eventsByOrgId, layerGroup, breadcrumb, backDisabled,
          infoPanel, prior, ret, lastEvent, apiPages, fetchPc, pageIndex,
          results, requested, callStack, walk>>

dataVars == <<apiOrgs, apiLocations, apiEvents>>
mapVars == <<orgById, childrenByParent, locationById, eventsByOrgId>>
fetchVars == <<apiPages, fetchPc, pageIndex, results, requested>>
callVars == <<callStack, walk>>

----------------------------------------------------------------------------
(* Optional values, JavaScript numbers and strings                         *)

None == <<>>

\* F applied to the value x: names an intermediate result that is used
\* several times
Bind(x, F(_)) == F(x)
Some(x) == <<x>>
IsSome(o) == o # <<>>
Val(o) == o[1]

NaN == [nan |-> TRUE, v |-> 0]
Num(k) == [nan |-> FALSE, v |-> k]

Digits == <<"0", "1", "2", "3", "4", "5", "6", "7", "8", "9">>
IsDigit(c) == \E d \in 1..10 : Digits[d] = c
DigitVal(c) == (CHOOSE d \in 1..10 : Digits[d] = c) - 1

WhiteSpace == {" ", "\t"}

RECURSIVE SkipWhiteSpace(_)
SkipWhiteSpace(s) ==
    IF s # <<>> /\ Head(s) \in WhiteSpace THEN SkipWhiteSpace(Tail(s)) ELSE s

RECURSIVE ParseDigits(_, _, _)
ParseDigits(s, acc, seen) ==
    IF s # <<>> /\ IsDigit(Head(s))
    THEN ParseDigits(Tail(s), acc * 10 + DigitVal(Head(s)), TRUE)
    ELSE [seen |-> seen, v |-> acc]

\* parseInt(s, 10): leading white space, an optional sign, then the longest
\* run of decimal digits; NaN when there is no digit.
parseInt(s) ==
    LET t == SkipWhiteSpace(s)
        signed == t # <<>> /\ Head(t) \in {"-", "+"}
        neg == t # <<>> /\ Head(t) = "-"
        r == ParseDigits(IF signed THEN Tail(t) ELSE t, 0, FALSE)
    IN IF r.seen THEN Num(IF neg THEN 0 - r.v ELSE r.v) ELSE NaN

RECURSIVE NatToString(_)
NatToString(n) ==
    IF n < 10 THEN <<Digits[n + 1]>>
    ELSE NatToString(n \div 10) \o <<Digits[(n % 10) + 1]>>

\* String(x) of a number
String(x) ==
    IF x.nan THEN <<"N", "a", "N">>
    ELSE IF x.v < 0 THEN <<"-">> \o NatToString(0 - x.v)
    ELSE NatToString(x.v)

UpperCase == <<"A", "B", "C", "D", "E", "F", "G", "H", "I", "J", "K", "L", "M",
               "N", "O", "P", "Q", "R", "S", "T", "U", "V", "W", "X", "Y", "Z">>
LowerCase == <<"a", "b", "c", "d", "e", "f", "g", "h", "i", "j", "k", "l", "m",
               "n", "o", "p", "q", "r", "s", "t", "u", "v", "w", "x", "y", "z">>

toLowerCase(s) ==
    [i \in 1..Len(s) |->
        IF \E k \in 1..26 : UpperCase[k] = s[i]
        THEN LowerCase[CHOOSE k \in 1..26 : UpperCase[k] = s[i]]
        ELSE s[i]]

Reverse(s) == [i \in 1..Len(s) |-> s[Len(s) + 1 - i]]

trim(s) == Reverse(SkipWhiteSpace(Reverse(SkipWhiteSpace(s))))

----------------------------------------------------------------------------
(* Maps                                                                    *)

EmptyMap == <<>>
MapHas(m, k) == k \in DOMAIN m
MapGet(m, k, default) == IF k \in DOMAIN m THEN m[k] ELSE default
MapSet(m, k, x) == [j \in (DOMAIN m) \cup {k} |-> IF j = k THEN x ELSE m[j]]

\* orgById.set(org.id, org) on the ordered map: a new key goes last, an
\* existing key keeps its place and takes the new value.
OrgMapSet(m, org) ==
    IF \E i \in 1..Len(m) : m[i].id = org.id
    THEN [i \in 1..Len(m) |-> IF m[i].id = org.id THEN org ELSE m[i]]
    ELSE Append(m, org)

\* orgById.get(id) for a number that may be NaN
OrgGet(m, x) ==
    IF ~x.nan /\ \E i \in 1..Len(m) : m[i].id = x.v
    THEN Some(m[CHOOSE i \in 1..Len(m) : m[i].id = x.v])
    ELSE None

----------------------------------------------------------------------------
(* The data source: a catalogue of records.  A session loads all of its    *)
(* organizations but at most MaxMissing (an organization that is not       *)
(* active is not returned, so a parent may be missing from a load).        *)

MaxMissing == 1
MaxLevelParam == 4

NameStyles == {"plain", "messy", "other"}

International(style) ==
    CASE style = "plain" ->
           <<"I", "n", "t", "e", "r", "n", "a", "t", "i", "o", "n", "a", "l">>
      [] style = "messy" ->
           <<" ", "I", "N", "T", "E", "R", "n", "a", "t", "i", "o", "n", "a", "l", "\t">>
      [] OTHER ->
           <<"I", "n", "t", "e", "r", "n", "a", "t", "i", "o", "n", "a", "l", "s">>

GeneralInternationalArea(style) ==
    CASE style = "plain" ->
           <<"G", "e", "n", "e", "r", "a", "l", " ", "I", "n", "t", "e", "r", "n",
             "a", "t", "i", "o", "n", "a", "l", " ", "A", "r", "e", "a">>
      [] style = "messy" ->
           <<" ", " ", "g", "e", "n", "e", "r", "a", "l", " ", "I", "N", "T", "E", "R", "N",
             "A", "T", "I", "O", "N", "A", "L", " ", "a", "r", "e", "a", " ">>
      [] OTHER ->
           <<"G", "e", "n", "e", "r", "a", "l", " ", "A", "r", "e", "a">>

Org(id, parentId, name, orgType) ==
    [id |-> id, parentId |-> parentId, name |-> name, orgType |-> orgType]

\* In load order, which is not the order of the ids.
OrgCatalogue(style) == <<
    Org(1, None, <<"F", "3">>, "nation"),
    Org(3, Some(1), International(style), "sector"),
    Org(2, Some(1), <<"S", "o", "u", "t", "h">>, "sector"),
    Org(5, Some(3), GeneralInternationalArea(style), "area"),
    Org(4, Some(2), <<"A", "l", "p", "h", "a">>, "area"),
    Org(7, Some(5), <<"R", "o", "m", "e">>, "region"),
    Org(6, Some(4), <<"M", "e", "t", "r", "o">>, "region"),
    Org(8, Some(6), <<"P", "a", "r", "k">>, "ao"),
    Org(9, Some(6), <<"F", "i", "e", "l", "d">>, "ao") >>

Location(id, latitude, longitude) ==
    [id |-> id, latitude |-> latitude, longitude |-> longitude]

\* Locations 1..4 are the corners of a square; location 5 has no latitude;
\* there is no location 6, which event 10 names.
LocationCatalogue == <<
    Location(0, Some(10), Some(10)),
    Location(1, Some(0), Some(0)),
    Location(2, Some(0), Some(4)),
    Location(3, Some(4), Some(4)),
    Location(4, Some(4), Some(0)),
    Location(5, None, Some(7)) >>

Event(id, locationId, parents, regions) ==
    [id |-> id, locationId |-> locationId, parents |-> parents, regions |-> regions]

\* parents and regions hold the parentId / regionId of each association.
EventCatalogue == <<
    Event(1, Some(1), <<>>, <<7>>),
    Event(2, Some(2), <<>>, <<7>>),
    Event(3, Some(3), <<7>>, <<>>),
    Event(4, Some(4), <<7>>, <<7>>),
    Event(5, Some(1), <<8>>, <<6>>),
    Event(6, Some(2), <<>>, <<6>>),
    Event(7, Some(0), <<9>>, <<>>),
    Event(8, None, <<8>>, <<>>),
    Event(9, Some(5), <<>>, <<6>>),
    Event(10, Some(6), <<4>>, <<>>) >>

RecordKeys == 1..Len(OrgCatalogue("plain"))

RECURSIVE SubsetsUpTo(_, _)
SubsetsUpTo(S, k) ==
    IF k = 0 THEN {{}}
    ELSE LET smaller == SubsetsUpTo(S, k - 1)
         IN smaller \cup {T \cup {x} : T \in smaller, x \in S}

\* the catalogue without the records at the missing positions, from position i
RECURSIVE Without(_, _, _)
Without(catalogue, missing, i) ==
    IF i > Len(catalogue) THEN <<>>
    ELSE (IF i \in missing THEN <<>> ELSE <<catalogue[i]>>)
             \o Without(catalogue, missing, i + 1)

----------------------------------------------------------------------------
(* Hierarchy index and point aggregation.  The operators take the entity   *)
(* maps as a record m, so that init can use them on the maps it builds.    *)

Maps == [orgById |-> orgById, childrenByParent |-> childrenByParent,
         locationById |-> locationById, eventsByOrgId |-> eventsByOrgId]

HasOrg(m, id) == \E i \in 1..Len(m.orgById) : m.orgById[i].id = id

isSectorInternational(org) ==
    /\ org.orgType = "sector"
    /\ toLowerCase(trim(org.name))
         = <<"i", "n", "t", "e", "r", "n", "a", "t", "i", "o", "n", "a", "l">>

isGeneralInternationalArea(org) ==
    /\ org.orgType = "area"
    /\ toLowerCase(trim(org.name))
         = <<"g", "e", "n", "e", "r", "a", "l", " ", "i", "n", "t", "e", "r", "n",
             "a", "t", "i", "o", "n", "a", "l", " ", "a", "r", "e", "a">>

RECURSIVE buildChildrenMapFrom(_, _)
buildChildrenMapFrom(orgs, children) ==
    IF orgs = <<>> THEN children
    ELSE LET org == Head(orgs)
         IN IF org.parentId = None
            THEN buildChildrenMapFrom(Tail(orgs), children)
            ELSE buildChildrenMapFrom(Tail(orgs),
                     MapSet(children, Val(org.parentId),
                            Append(MapGet(children, Val(org.parentId), <<>>), org)))

\* childrenByParent.clear() and one push per organization with a parent id
buildChildrenMap(orgs) == buildChildrenMapFrom(orgs, EmptyMap)

\* a miss of getDescendantOrgIds that stops at the children
getDescendantOrgIdsMissOneLevel(m, cache, orgId) ==
    IF ~HasOrg(m, orgId)
    THEN [ids |-> <<>>, cache |-> MapSet(cache, orgId, <<>>)]
    ELSE Bind(MapGet(m.childrenByParent, orgId, <<>>),
              LAMBDA children :
                  Bind(<<orgId>> \o [i \in 1..Len(children) |-> children[i].id],
                       LAMBDA ids : [ids |-> ids, cache |-> MapSet(cache, orgId, ids)]))

\* getDescendantOrgIds returns the ids and leaves the memo in the cache:
\* [ids, cache].  flatMapDescendants is children.flatMap(...), left to right.
RECURSIVE getDescendantOrgIds(_, _, _)
RECURSIVE flatMapDescendants(_, _, _, _)
getDescendantOrgIdsMiss(m, cache, orgId) ==
    IF ~HasOrg(m, orgId)
    THEN [ids |-> <<>>, cache |-> MapSet(cache, orgId, <<>>)]
    ELSE Bind(flatMapDescendants(m, cache, MapGet(m.childrenByParent, orgId, <<>>), <<>>),
              LAMBDA r :
                  [ids |-> <<orgId>> \o r.ids,
                   cache |-> MapSet(r.cache, orgId, <<orgId>> \o r.ids)])

getDescendantOrgIds(m, cache, orgId) ==
    IF MapHas(cache, orgId)
    THEN [ids |-> cache[orgId], cache |-> cache]
    ELSE getDescendantOrgIdsMiss(m, cache, orgId)

flatMapDescendants(m, cache, children, acc) ==
    IF children = <<>> THEN [ids |-> acc, cache |-> cache]
    ELSE Bind(getDescendantOrgIds(m, cache, Head(children).id),
              LAMBDA r : flatMapDescendants(m, r.cache, Tail(children), acc \o r.ids))

Point(lat, lng) == [lat |-> lat, lng |-> lng]

\* One event of getOrgPoints' inner loop.  acc is [points, seen]: seen lists
\* the location ids added to seenLocationIds, in the order of their points.
addEventPoint(m, acc, event) ==
    IF event.locationId = None \/ Val(event.locationId) = 0
         \/ \E i \in 1..Len(acc.seen) : acc.seen[i] = Val(event.locationId)
    THEN acc
    ELSE IF ~MapHas(m.locationById, Val(event.locationId)) THEN acc
    ELSE LET location == m.locationById[Val(event.locationId)]
         IN IF location.latitude = None \/ location.longitude = None THEN acc
            ELSE [points |-> Append(acc.points,
                                    Point(Val(location.latitude), Val(location.longitude))),
                  seen |-> Append(acc.seen, Val(event.locationId))]

RECURSIVE addEventsPoints(_, _, _)
addEventsPoints(m, acc, events) ==
    IF events = <<>> THEN acc
    ELSE addEventsPoints(m, addEventPoint(m, acc, Head(events)), Tail(events))

RECURSIVE addOrgsPoints(_, _, _)
addOrgsPoints(m, acc, orgIds) ==
    IF orgIds = <<>> THEN acc
    ELSE addOrgsPoints(m,
             addEventsPoints(m, acc, MapGet(m.eventsByOrgId, Head(orgIds), <<>>)),
             Tail(orgIds))

\* getOrgPoints: [points, seen, cache]
getOrgPoints(m, cache, org) ==
    Bind(getDescendantOrgIds(m, cache, org.id),
         LAMBDA d :
             Bind(addOrgsPoints(m, [points |-> <<>>, seen |-> <<>>], d.ids),
                  LAMBDA acc :
                      [points |-> acc.points, seen |-> acc.seen, cache |-> d.cache]))

\* init's eventsByOrgId: the event is pushed once per association, parents first
RECURSIVE pushEvent(_, _, _)
pushEvent(byOrg, event, orgIds) ==
    IF orgIds = <<>> THEN byOrg
    ELSE pushEvent(MapSet(byOrg, Head(orgIds),
                          Append(MapGet(byOrg, Head(orgIds), <<>>), event)),
                   event, Tail(orgIds))

RECURSIVE buildEventsByOrgId(_, _)
buildEventsByOrgId(events, byOrg) ==
    IF events = <<>> THEN byOrg
    ELSE buildEventsByOrgId(Tail(events),
             pushEvent(byOrg, Head(events), Head(events).parents \o Head(events).regions))

RECURSIVE buildLocationById(_, _)
buildLocationById(locations, byId) ==
    IF locations = <<>> THEN byId
    ELSE buildLocationById(Tail(locations), MapSet(byId, Head(locations).id, Head(locations)))

RECURSIVE buildOrgById(_, _)
buildOrgById(orgs, byId) ==
    IF orgs = <<>> THEN byId
    ELSE buildOrgById(Tail(orgs), OrgMapSet(byId, Head(orgs)))

----------------------------------------------------------------------------
(* Geometry kernel                                                         *)

cross(o, a, b) ==
    (a.lng - o.lng) * (b.lat - o.lat) - (a.lat - o.lat) * (b.lng - o.lng)

\* the comparator of convexHull's sort: negative when p1 goes first
comparePoints(p1, p2) ==
    IF p1.lng = p2.lng THEN p1.lat - p2.lat ELSE p1.lng - p2.lng

\* Array.prototype.sort is stable: insert each point after the points that
\* do not compare greater than it.
RECURSIVE insertSorted(_, _)
insertSorted(sorted, p) ==
    IF sorted = <<>> THEN <<p>>
    ELSE IF comparePoints(Head(sorted), p) <= 0
         THEN <<Head(sorted)>> \o insertSorted(Tail(sorted), p)
         ELSE <<p>> \o sorted

RECURSIVE sortPoints(_, _)
sortPoints(points, sorted) ==
    IF points = <<>> THEN sorted
    ELSE sortPoints(Tail(points), insertSorted(sorted, Head(points)))

pop(chain) == SubSeq(chain, 1, Len(chain) - 1)

\* popWhileNotLeft with < in place of <=: a point in line with the last two
\* is kept
RECURSIVE popWhileRight(_, _)
popWhileRight(chain, point) ==
    IF Len(chain) >= 2 /\ cross(chain[Len(chain) - 1], chain[Len(chain)], point) < 0
    THEN popWhileRight(pop(chain), point)
    ELSE chain

\* the while loops of convexHull: pop while the last two and the point do
\* not turn left
RECURSIVE popWhileNotLeft(_, _)
popWhileNotLeft(chain, point) ==
    IF Len(chain) >= 2 /\ cross(chain[Len(chain) - 1], chain[Len(chain)], point) <= 0
    THEN popWhileNotLeft(pop(chain), point)
    ELSE chain

RECURSIVE buildChain(_, _)
buildChain(points, chain) ==
    IF points = <<>> THEN chain
    ELSE buildChain(Tail(points),
                    Append(popWhileNotLeft(chain, Head(points)), Head(points)))

convexHull(points) ==
    IF Len(points) <= 1 THEN points
    ELSE LET sorted == sortPoints(points, <<>>)
             lower == buildChain(sorted, <<>>)
             upper == buildChain(Reverse(sorted), <<>>)
         IN pop(lower) \o pop(upper)

\* The vertex lists of the star and of the circle are sines and cosines of
\* their parameters; a shape is kept as the call that makes it.  A circle's
\* centre is kept doubled (center2), so that a midpoint is exact.
StarShape(center, radiusDegrees, points) ==
    [kind |-> "star", center |-> center, radius |-> radiusDegrees, points |-> points]

CircleShape(center2, radiusHundredths) ==
    [kind |-> "circle", center2 |-> center2, radius |-> radiusHundredths]

HullShape(hull) == [kind |-> "hull", vertices |-> hull]

----------------------------------------------------------------------------
(* Navigation state and its URL form                                       *)

levelOrder == <<"sector", "area", "region", "ao">>

\* levelOrder[x] for a JavaScript number x: "undefined" outside 0..3 and for NaN
LevelAt(x) ==
    IF ~x.nan /\ x.v >= 0 /\ x.v < Len(levelOrder) THEN levelOrder[x.v + 1]
    ELSE "undefined"

\* levelOrder.indexOf(orgType)
indexOf(orgType) ==
    IF \E i \in 1..Len(levelOrder) : levelOrder[i] = orgType
    THEN (CHOOSE i \in 1..Len(levelOrder) : levelOrder[i] = orgType) - 1
    ELSE 0 - 1

\* URLSearchParams.get: the first value of the key, or null
ParamGet(u, key) ==
    IF \E i \in 1..Len(u) : u[i][1] = key
    THEN LET first == CHOOSE i \in 1..Len(u) :
                          u[i][1] = key /\ \A j \in 1..(i - 1) : u[j][1] # key
         IN Some(u[first][2])
    ELSE None

\* a string-or-null in a condition: null and "" are falsy
Truthy(param) == IsSome(param) /\ Val(param) # <<>>

\* a parentId in a condition: null, undefined and 0 are falsy
TruthyId(id) == IsSome(id) /\ Val(id) # 0

updateUrlState(level, path) ==
    IF Len(path) > 0
    THEN << <<"org", String(Num(path[Len(path)].id))>> >>
    ELSE << <<"level", String(level)>> >>

\* walkUp with path.push in place of path.unshift
RECURSIVE walkUpPush(_, _, _)
walkUpPush(m, current, path) ==
    IF current = None THEN path
    ELSE walkUpPush(m,
                    IF TruthyId(Val(current).parentId)
                    THEN OrgGet(m.orgById, Num(Val(Val(current).parentId)))
                    ELSE None,
                    Append(path, Val(current)))

\* the while loop of restoreStateFromUrl: path.unshift(current), then the parent
RECURSIVE walkUp(_, _, _)
walkUp(m, current, path) ==
    IF current = None THEN path
    ELSE walkUp(m,
                IF TruthyId(Val(current).parentId)
                THEN OrgGet(m.orgById, Num(Val(Val(current).parentId)))
                ELSE None,
                <<Val(current)>> \o path)

notNation(o) == o.orgType # "nation"

\* restoreStateFromUrl on the state (level, path): the new [level, path]
restoreStateFromUrl(m, u, level, path) ==
    LET orgParam == ParamGet(u, "org")
        levelParam == ParamGet(u, "level")
    IN IF Truthy(orgParam)
       THEN LET orgId == parseInt(Val(orgParam))
                org == OrgGet(m.orgById, orgId)
            IN IF IsSome(org)
               THEN LET levelIndex == indexOf(Val(org).orgType)
                    IN [path |-> SelectSeq(walkUp(m, org, <<>>), notNation),
                        level |-> IF levelIndex # 0 - 1 THEN Num(levelIndex + 1)
                                  ELSE level]
               ELSE [path |-> path, level |-> level]
       ELSE IF Truthy(levelParam)
            THEN [path |-> <<>>, level |-> parseInt(Val(levelParam))]
            ELSE [path |-> path, level |-> level]

\* getCurrentLevelOrgs without the branch for the International sector
getCurrentLevelOrgsChildrenOnly(m, cache, levelIndex, path) ==
    LET level == LevelAt(levelIndex)
    IN IF level = "sector"
       THEN [orgs |-> SelectSeq(m.orgById, LAMBDA org : org.orgType = "sector"),
             cache |-> cache]
       ELSE IF path = <<>>
       THEN [orgs |-> SelectSeq(m.orgById, LAMBDA org : org.orgType = level),
             cache |-> cache]
       ELSE [orgs |-> SelectSeq(m.orgById,
                        LAMBDA org : /\ org.orgType = level
                                     /\ org.parentId = Some(path[Len(path)].id)),
             cache |-> cache]

\* getCurrentLevelOrgs: [orgs, cache]; [...orgById.values()] is orgById
getCurrentLevelOrgs(m, cache, levelIndex, path) ==
    LET level == LevelAt(levelIndex)
    IN IF level = "sector"
       THEN [orgs |-> SelectSeq(m.orgById, LAMBDA org : org.orgType = "sector"),
             cache |-> cache]
       ELSE IF path = <<>>
       THEN [orgs |-> SelectSeq(m.orgById, LAMBDA org : org.orgType = level),
             cache |-> cache]
       ELSE LET parent == path[Len(path)]
            IN IF isSectorInternational(parent) /\ level = "region"
               THEN Bind(getDescendantOrgIds(m, cache, parent.id),
                         LAMBDA d :
                             [orgs |-> SelectSeq(m.orgById,
                                   LAMBDA org : /\ org.orgType = "region"
                                                /\ \E i \in 1..Len(d.ids) : d.ids[i] = org.id),
                              cache |-> d.cache])
               ELSE [orgs |-> SelectSeq(m.orgById,
                                LAMBDA org : /\ org.orgType = level
                                             /\ org.parentId = Some(parent.id)),
                     cache |-> cache]

\* renderBreadcrumb: the Nation crumb, then one crumb per path element; a
\* crumb gets a click handler unless it is current (last and not Nation).
renderBreadcrumb(path) ==
    <<[depth |-> 0 - 1, current |-> FALSE]>>
        \o [i \in 1..Len(path) |-> [depth |-> i - 1, current |-> i = Len(path)]]

\* pointsShape without the averaging of two points: the circle is centred
\* on the first point
pointsShapeFirstPoint(points, cache) ==
    IF Len(points) < 3
    THEN IF Len(points) = 0 THEN [shape |-> None, cache |-> cache]
         ELSE [shape |-> Some(CircleShape(Point(2 * points[1].lat, 2 * points[1].lng), 15)),
               cache |-> cache]
    ELSE Bind(convexHull(points),
              LAMBDA hull : IF Len(hull) < 3 THEN [shape |-> None, cache |-> cache]
                            ELSE [shape |-> Some(HullShape(hull)), cache |-> cache])

\* renderLevel's choice of shape for points (main.ts:604-623): [shape, cache],
\* the shape None when the organization is not drawn.
pointsShape(points, cache) ==
    IF Len(points) < 3
    THEN IF Len(points) = 0 THEN [shape |-> None, cache |-> cache]
         ELSE IF Len(points) = 2
         THEN [shape |-> Some(CircleShape(Point(points[1].lat + points[2].lat,
                                                points[1].lng + points[2].lng), 15)),
               cache |-> cache]
         ELSE [shape |-> Some(CircleShape(Point(2 * points[1].lat, 2 * points[1].lng), 15)),
               cache |-> cache]
    ELSE Bind(convexHull(points),
              LAMBDA hull : IF Len(hull) < 3 THEN [shape |-> None, cache |-> cache]
                            ELSE [shape |-> Some(HullShape(hull)), cache |-> cache])

\* renderLevelShape with the points consulted first and the star left to
\* the organizations whose points give no shape
renderLevelShapePointsFirst(m, cache, org) ==
    Bind(Bind(getOrgPoints(m, cache, org), LAMBDA p : pointsShape(p.points, p.cache)),
         LAMBDA r :
             IF r.shape = None
                  /\ (isSectorInternational(org) \/ isGeneralInternationalArea(org))
             THEN [shape |-> Some(StarShape(Point(20, 0 - 40), 8, 5)), cache |-> r.cache]
             ELSE r)

\* renderLevel's choice of shape for one organization (main.ts:594-624)
renderLevelShape(m, cache, org) ==
    IF isSectorInternational(org) \/ isGeneralInternationalArea(org)
    THEN [shape |-> Some(StarShape(Point(20, 0 - 40), 8, 5)), cache |-> cache]
    ELSE Bind(getOrgPoints(m, cache, org), LAMBDA p : pointsShape(p.points, p.cache))

RECURSIVE renderPolygons(_, _, _, _)
renderPolygons(m, cache, orgs, polygons) ==
    IF orgs = <<>> THEN [polygons |-> polygons, cache |-> cache]
    ELSE Bind(renderLevelShape(m, cache, Head(orgs)),
              LAMBDA r :
                  renderPolygons(m, r.cache, Tail(orgs),
                      IF r.shape = None THEN polygons
                      ELSE Append(polygons, [org |-> Head(orgs), shape |-> Val(r.shape)])))

\* sectors.forEach(sector => getOrgPoints(sector)) of init: the cache it leaves
RECURSIVE logSectorPoints(_, _, _)
logSectorPoints(m, cache, orgs) ==
    IF orgs = <<>> THEN cache
    ELSE logSectorPoints(m, getOrgPoints(m, cache, Head(orgs)).cache, Tail(orgs))

Placeholder(message) == [message |-> message, org |-> None]
OrgInfo(org) == [message |-> <<"info">>, org |-> Some(org.id)]

\* renderLevel: what it leaves on the page and in the cache
renderLevel(m, cache, levelIndex, path, info) ==
    Bind(getCurrentLevelOrgs(m, cache, levelIndex, path),
         LAMBDA c :
             Bind(renderPolygons(m, c.cache, c.orgs, <<>>),
                  LAMBDA r :
                      [layerGroup |-> r.polygons,
                       breadcrumb |-> renderBreadcrumb(path),
                       backDisabled |-> (Len(path) = 0),
                       cache |-> r.cache,
                       infoPanel |->
                           IF c.orgs = <<>>
                           THEN Placeholder(<<"No ", LevelAt(levelIndex), "s available.">>)
                           ELSE info]))

\* renderInfo: [cache, infoPanel]; it asks for the descendants and, for a
\* region, for the points
renderInfo(m, cache, org) ==
    Bind(getDescendantOrgIds(m, cache, org.id),
         LAMBDA d :
             [cache |-> IF org.orgType = "region" THEN getOrgPoints(m, d.cache, org).cache
                        ELSE d.cache,
              infoPanel |-> OrgInfo(org)])

\* displayNationInfo: renderInfo of organization 1, when there is one
displayNationInfo(m, cache, info) ==
    Bind(OrgGet(m.orgById, Num(1)),
         LAMBDA nationOrg :
             IF IsSome(nationOrg) THEN renderInfo(m, cache, Val(nationOrg))
             ELSE [cache |-> cache, infoPanel |-> info])

----------------------------------------------------------------------------
(* The session: page load, init, and the UI handlers                       *)

OrgParams ==
    {String(Num(i)) : i \in 1..(Len(OrgCatalogue("plain")) + 1)}
        \cup {<<"a", "b", "c">>, <<"3", "x">>}

LevelParams ==
    {String(Num(i)) : i \in (0 - 1)..MaxLevelParam}
        \cup {<<"a", "b", "c">>, <<"2", ".", "5">>, <<" ", "1">>}

\* the query strings a session is opened with
InitialUrls ==
    {<<>>}
        \cup {<< <<"org", o>> >> : o \in OrgParams}
        \cup {<< <<"level", l>> >> : l \in LevelParams}
        \cup {<< <<"org", o>>, <<"level", <<"2">>>> >> : o \in {<<>>, <<"x">>, <<"4">>}}

\* no call of getDescendantOrgIds and no parent walk is followed step by step
NoCall ==
    /\ callStack = <<>>
    /\ walk = None

\* no fetchPaged call is followed page by page
FetchIdle ==
    /\ apiPages = <<>>
    /\ fetchPc = "idle"
    /\ pageIndex = 0
    /\ results = <<>>
    /\ requested = <<>>

\* The page as the script's top level leaves it (main.ts:57-127, 699-700)
PageLoaded ==
    /\ phase = "loading"
    /\ currentLevelIndex = Num(0)
    /\ selectedPath = <<>>
    /\ orgById = <<>>
    /\ childrenByParent = EmptyMap
    /\ orgDescendantsCache = EmptyMap
    /\ locationById = EmptyMap
    /\ eventsByOrgId = EmptyMap
    /\ layerGroup = <<>>
    /\ breadcrumb = <<>>
    /\ backDisabled = TRUE
    /\ infoPanel = Placeholder(<<"Loading organizations...">>)

Init ==
    /\ \E style \in NameStyles, missing \in SubsetsUpTo(RecordKeys, MaxMissing) :
          apiOrgs = Without(OrgCatalogue(style), missing, 1)
    /\ apiLocations = LocationCatalogue
    /\ apiEvents = EventCatalogue
    /\ url \in InitialUrls
    /\ PageLoaded
    /\ prior = None
    /\ ret = None
    /\ lastEvent = None
    /\ FetchIdle
    /\ NoCall

\* what a handler's closing renderLevel, and the displayNationInfo that may
\* follow it, leave: r is renderLevel's result, n is [cache, infoPanel]
Rendered(r, n) ==
    /\ layerGroup' = r.layerGroup
    /\ breadcrumb' = r.breadcrumb
    /\ backDisabled' = r.backDisabled
    /\ orgDescendantsCache' = n.cache
    /\ infoPanel' = n.infoPanel

\* the entity maps init builds from the three loads (main.ts:717-746)
initMaps ==
    [orgById |-> buildOrgById(apiOrgs, orgById),
     childrenByParent |-> buildChildrenMap(apiOrgs),
     locationById |-> buildLocationById(apiLocations, locationById),
     eventsByOrgId |-> buildEventsByOrgId(apiEvents, eventsByOrgId)]

\* init() after its three loads: main.ts:715-757
InitDone ==
    /\ phase = "loading"
    /\ \E m \in {initMaps} :
       \E s \in {restoreStateFromUrl(m, url, currentLevelIndex, selectedPath)} :
       \E logged \in {logSectorPoints(m, EmptyMap,
                          SelectSeq(apiOrgs, LAMBDA o : o.orgType = "sector"))} :
       \E r \in {renderLevel(m, logged, s.level, s.path, infoPanel)} :
          /\ orgById' = m.orgById
          /\ childrenByParent' = m.childrenByParent
          /\ locationById' = m.locationById
          /\ eventsByOrgId' = m.eventsByOrgId
          /\ currentLevelIndex' = s.level
          /\ selectedPath' = s.path
          /\ Rendered(r, displayNationInfo(m, r.cache, r.infoPanel))
    /\ phase' = "ready"
    /\ lastEvent' = None
    /\ UNCHANGED <<dataVars, fetchVars, callVars, url, prior, ret>>

\* a page request fails: init() rejects and its catch shows the failure
InitFail ==
    /\ phase = "loading"
    /\ phase' = "failed"
    /\ infoPanel' = Placeholder(<<"Failed to load data.">>)
    /\ lastEvent' = None
    /\ UNCHANGED <<dataVars, fetchVars, callVars, mapVars, url, currentLevelIndex, selectedPath,
                   orgDescendantsCache, layerGroup, breadcrumb, backDisabled,
                   prior, ret>>

\* The record of a handled UI event: which handler ran (op), on which
\* organization or with which number (the level of a layer button, the depth
\* of a crumb), and the state it found.
Handled(op, org, arg) ==
    Some([op |-> op, org |-> org, arg |-> arg,
          level |-> currentLevelIndex, path |-> selectedPath, url |-> url,
          phase |-> phase, infoPanel |-> infoPanel, layerGroup |-> layerGroup])

\* a handler that returns at once: nothing but the record of the event changes
Ignored ==
    UNCHANGED <<dataVars, fetchVars, callVars, mapVars, phase, url,
                currentLevelIndex, selectedPath,
                orgDescendantsCache, layerGroup, breadcrumb, backDisabled,
                infoPanel, prior, ret>>

\* the navigation state a handler sets, with the URL it writes and the
\* level it renders
Navigate(level, path, cache, nation) ==
    /\ selectedPath' = path
    /\ currentLevelIndex' = level
    /\ url' = updateUrlState(level, path)
    /\ \E r \in {renderLevel(Maps, cache, level, path, infoPanel)} :
          Rendered(r, IF nation THEN displayNationInfo(Maps, r.cache, r.infoPanel)
                      ELSE [cache |-> r.cache, infoPanel |-> r.infoPanel])
    /\ prior' = None
    /\ UNCHANGED <<dataVars, fetchVars, callVars, mapVars, phase, ret>>

\* LayerBtnClick without selectedPath = []
LayerBtnClickKeepsPath(level) ==
    /\ Navigate(Num(level), selectedPath, orgDescendantsCache, FALSE)
    /\ lastEvent' = Handled("layer", None, level)

\* a layer button's click handler; the buttons are data-level 0, 1 and 2
LayerBtnClick(level) ==
    /\ Navigate(Num(level), <<>>, orgDescendantsCache, FALSE)
    /\ lastEvent' = Handled("layer", None, level)

\* DecrementToZero without the decrement
KeepLevel(x) == x

\* currentLevelIndex + 1, Math.max(0, currentLevelIndex - 1) and
\* currentLevelIndex >= levelOrder.length - 1 on a number that may be NaN
Increment(x) == IF x.nan THEN NaN ELSE Num(x.v + 1)
DecrementToZero(x) ==
    IF x.nan THEN NaN ELSE IF x.v - 1 > 0 THEN Num(x.v - 1) ELSE Num(0)
AtDeepestLevel(x) == ~x.nan /\ x.v >= Len(levelOrder) - 1

\* clickPath without the parent put before the organization
clickPathAppendOnly(m, path, org) == Append(path, org)

\* the path a polygon click selects
clickPath(m, path, org) ==
    IF Len(path) = 0 /\ TruthyId(org.parentId)
    THEN Bind(OrgGet(m.orgById, Num(Val(org.parentId))),
              LAMBDA parent :
                  IF IsSome(parent) /\ Val(parent).orgType # "nation"
                  THEN <<Val(parent), org>>
                  ELSE <<org>>)
    ELSE Append(path, org)

\* clickLevel without the jump for the umbrella units
clickLevelIncrement(levelIndex, org) == Increment(levelIndex)

\* the level a polygon click moves to
clickLevel(levelIndex, org) ==
    IF isSectorInternational(org) \/ isGeneralInternationalArea(org)
    THEN Num(2)
    ELSE Increment(levelIndex)

\* PolygonClick without the return for regions
PolygonClickRegionsDrill(i) ==
    /\ i \in 1..Len(layerGroup)
    /\ lastEvent' = Handled("click", Some(layerGroup[i].org), i)
    /\ IF AtDeepestLevel(currentLevelIndex)
       THEN Ignored
       ELSE Navigate(clickLevel(currentLevelIndex, layerGroup[i].org),
                     clickPath(Maps, selectedPath, layerGroup[i].org),
                     orgDescendantsCache, FALSE)

\* the click handler of the i-th polygon on the map
PolygonClick(i) ==
    /\ i \in 1..Len(layerGroup)
    /\ lastEvent' = Handled("click", Some(layerGroup[i].org), i)
    /\ IF layerGroup[i].org.orgType = "region" \/ AtDeepestLevel(currentLevelIndex)
       THEN Ignored
       ELSE Navigate(clickLevel(currentLevelIndex, layerGroup[i].org),
                     clickPath(Maps, selectedPath, layerGroup[i].org),
                     orgDescendantsCache, FALSE)

\* the mouseover handler of the i-th polygon
PolygonHover(i) ==
    /\ i \in 1..Len(layerGroup)
    /\ \E n \in {renderInfo(Maps, orgDescendantsCache, layerGroup[i].org)} :
          /\ orgDescendantsCache' = n.cache
          /\ infoPanel' = n.infoPanel
    /\ UNCHANGED <<dataVars, fetchVars, callVars, mapVars, phase, url,
                   currentLevelIndex, selectedPath,
                   layerGroup, breadcrumb, backDisabled, prior, ret>>
    /\ lastEvent' = Handled("hover", Some(layerGroup[i].org), i)

\* the cache after the Back handler's getOrgPoints(focusOrg)
backFocus(m, cache, path) ==
    IF path = <<>> THEN cache ELSE getOrgPoints(m, cache, path[Len(path)]).cache

\* the Back button's click handler; a disabled button gets no click
BackClick ==
    /\ ~backDisabled
    /\ lastEvent' = Handled("back", None, 0)
    /\ IF Len(selectedPath) = 0
       THEN Ignored
       ELSE Navigate(DecrementToZero(currentLevelIndex), pop(selectedPath),
                     backFocus(Maps, orgDescendantsCache, pop(selectedPath)), FALSE)

\* BreadcrumbClick with the level index set to the depth of the crumb
BreadcrumbClickLevelIsDepth(i) ==
    /\ i \in 1..Len(breadcrumb)
    /\ ~breadcrumb[i].current
    /\ lastEvent' = Handled("crumb", None, breadcrumb[i].depth)
    /\ IF breadcrumb[i].depth = 0 - 1
       THEN Navigate(Num(0), <<>>, orgDescendantsCache, TRUE)
       ELSE Navigate(Num(breadcrumb[i].depth),
                     SubSeq(selectedPath, 1, breadcrumb[i].depth + 1),
                     orgDescendantsCache, FALSE)

\* the click handler of the i-th crumb; a current crumb has none
BreadcrumbClick(i) ==
    /\ i \in 1..Len(breadcrumb)
    /\ ~breadcrumb[i].current
    /\ lastEvent' = Handled("crumb", None, breadcrumb[i].depth)
    /\ IF breadcrumb[i].depth = 0 - 1
       THEN Navigate(Num(0), <<>>, orgDescendantsCache, TRUE)
       ELSE Navigate(Num(breadcrumb[i].depth + 1),
                     SubSeq(selectedPath, 1, breadcrumb[i].depth + 1),
                     orgDescendantsCache, FALSE)

\* The user reloads the page (or opens the shared URL): a fresh page on the
\* same URL and the same data.  prior remembers the state of a loaded page.
Reload ==
    /\ prior' = IF phase = "ready"
                THEN Some([level |-> currentLevelIndex, path |-> selectedPath])
                ELSE None
    /\ phase' = "loading"
    /\ currentLevelIndex' = Num(0)
    /\ selectedPath' = <<>>
    /\ orgById' = <<>>
    /\ childrenByParent' = EmptyMap
    /\ orgDescendantsCache' = EmptyMap
    /\ locationById' = EmptyMap
    /\ eventsByOrgId' = EmptyMap
    /\ layerGroup' = <<>>
    /\ breadcrumb' = <<>>
    /\ backDisabled' = TRUE
    /\ infoPanel' = Placeholder(<<"Loading organizations...">>)
    /\ lastEvent' = None
    /\ UNCHANGED <<dataVars, fetchVars, callVars, url, ret>>

Next ==
    \/ InitDone
    \/ InitFail
    \/ \E level \in 0..2 : LayerBtnClick(level)
    \/ \E i \in 1..Len(layerGroup) : PolygonClick(i)
    \/ \E i \in 1..Len(layerGroup) : PolygonHover(i)
    \/ BackClick
    \/ \E i \in 1..Len(breadcrumb) : BreadcrumbClick(i)
    \/ Reload

Spec == Init /\ [][Next]_vars

----------------------------------------------------------------------------
(* getDescendantOrgIds on its own: the page is ready over a loaded         *)
(* collection whose parent links form a forest, a parent id may name no    *)
(* loaded organization, and the function is called on any id, the memo     *)
(* kept from call to call.                                                 *)

MaxForestOrgs == 3

ForestIds == 1..MaxForestOrgs
\* one id more than is loaded: an unknown organization
CallIds == 1..(MaxForestOrgs + 1)
ParentChoices == {None} \cup {Some(k) : k \in CallIds}

\* climbing from id by at most fuel parent links passes through target
RECURSIVE Climbs(_, _, _, _)
Climbs(parents, id, target, fuel) ==
    /\ fuel > 0
    /\ id \in DOMAIN parents
    /\ parents[id] # None
    /\ \/ Val(parents[id]) = target
       \/ Climbs(parents, Val(parents[id]), target, fuel - 1)

Forests ==
    {parents \in [ForestIds -> ParentChoices] :
        \A id \in ForestIds : ~Climbs(parents, id, id, MaxForestOrgs)}

\* the organizations of a forest in the order of a load: by id, up or down
ForestOrgs(parents, order) ==
    [i \in 1..MaxForestOrgs |->
        LET id == IF order = "up" THEN i ELSE MaxForestOrgs + 1 - i
        IN Org(id, parents[id], <<"O">>, "region")]

InitForest ==
    /\ \E parents \in Forests, order \in {"up", "down"} :
          apiOrgs = ForestOrgs(parents, order)
    /\ apiLocations = <<>>
    /\ apiEvents = <<>>
    /\ url = <<>>
    /\ phase = "ready"
    /\ currentLevelIndex = Num(0)
    /\ selectedPath = <<>>
    /\ orgById = buildOrgById(apiOrgs, <<>>)
    /\ childrenByParent = buildChildrenMap(apiOrgs)
    /\ orgDescendantsCache = EmptyMap
    /\ locationById = EmptyMap
    /\ eventsByOrgId = EmptyMap
    /\ layerGroup = <<>>
    /\ breadcrumb = <<>>
    /\ backDisabled = TRUE
    /\ infoPanel = Placeholder(<<"Loading organizations...">>)
    /\ prior = None
    /\ ret = None
    /\ lastEvent = None
    /\ FetchIdle
    /\ NoCall

\* one call of getDescendantOrgIds(orgId): ret is the call and what it returned
CallGetDescendantOrgIds(orgId) ==
    /\ \E r \in {getDescendantOrgIds(Maps, orgDescendantsCache, orgId)} :
          /\ ret' = Some([orgId |-> orgId, ids |-> r.ids])
          /\ orgDescendantsCache' = r.cache
    /\ UNCHANGED <<dataVars, fetchVars, callVars, mapVars, phase, url,
                   currentLevelIndex, selectedPath,
                   layerGroup, breadcrumb, backDisabled, infoPanel, prior, lastEvent>>

NextForest == \E orgId \in CallIds : CallGetDescendantOrgIds(orgId)

SpecForest == InitForest /\ [][NextForest]_vars

----------------------------------------------------------------------------
(* The boundary of one organization on its own: a region that is no        *)
(* umbrella unit, with one event at each of a list of locations drawn from *)
(* a small grid (two locations may share their coordinates).  renderLevel's *)
(* choice of shape and convexHull are applied to its points.               *)

MaxPoints == 4

Coordinates == {0, 1, 2}
GridPoints == {Point(lat, lng) : lat \in Coordinates, lng \in Coordinates}
PointLists == UNION {[1..n -> GridPoints] : n \in 0..MaxPoints}

TheRegion == Org(1, None, <<"R", "o", "m", "e">>, "region")

\* the entity maps init builds when location i lies at points[i] and event i
\* of the region is held there
PointMaps(points) ==
    [orgById |-> buildOrgById(<<TheRegion>>, <<>>),
     childrenByParent |-> buildChildrenMap(<<TheRegion>>),
     locationById |->
         buildLocationById([i \in 1..Len(points) |->
                               Location(i, Some(points[i].lat), Some(points[i].lng))],
                           EmptyMap),
     eventsByOrgId |->
         buildEventsByOrgId([i \in 1..Len(points) |->
                                Event(i, Some(i), <<TheRegion.id>>, <<>>)],
                            EmptyMap)]

InitHull ==
    /\ apiOrgs = <<TheRegion>>
    /\ apiLocations = <<>>
    /\ apiEvents = <<>>
    /\ url = <<>>
    /\ phase = "ready"
    /\ currentLevelIndex = Num(0)
    /\ selectedPath = <<>>
    /\ orgById = buildOrgById(apiOrgs, <<>>)
    /\ childrenByParent = buildChildrenMap(apiOrgs)
    /\ orgDescendantsCache = EmptyMap
    /\ locationById = EmptyMap
    /\ eventsByOrgId = EmptyMap
    /\ layerGroup = <<>>
    /\ breadcrumb = <<>>
    /\ backDisabled = TRUE
    /\ infoPanel = Placeholder(<<"Loading organizations...">>)
    /\ prior = None
    /\ ret = None
    /\ lastEvent = None
    /\ FetchIdle
    /\ NoCall

\* the shape renderLevel chooses for the region, its aggregated points and
\* their convexHull: ret is the input and what was returned
ResolveBoundary(points) ==
    /\ \E m \in {PointMaps(points)} :
          ret' = Some([points |-> points,
                       aggregated |-> getOrgPoints(m, EmptyMap, TheRegion).points,
                       shape |-> renderLevelShape(m, EmptyMap, TheRegion).shape,
                       hull |-> convexHull(points)])
    /\ UNCHANGED <<dataVars, fetchVars, callVars, mapVars, phase, url,
                   currentLevelIndex, selectedPath,
                   orgDescendantsCache, layerGroup, breadcrumb, backDisabled,
                   infoPanel, prior, lastEvent>>

\* The functions keep nothing from one call to the next: one call is made.
NextHull ==
    /\ ret = None
    /\ \E points \in PointLists : ResolveBoundary(points)

SpecHull == InitHull /\ [][NextHull]_vars

----------------------------------------------------------------------------
(* fetchPaged on its own, followed page by page: one listing operation of  *)
(* the data source, which serves a list of pages and an empty page for     *)
(* every page index past them.  A page may be short anywhere in the list.  *)
(* A request is answered or fails; a failure rejects the call.             *)

\* 1000 at main.ts:199; fetchPaged compares page lengths with it, nothing else
pageSize == 2
MaxPages == 4

\* the k-th item of the page with index page
Item(page, k) == <<page, k>>

\* the lists of page lengths of a listing operation
PageLengths == UNION {[1..n -> 0..pageSize] : n \in 0..MaxPages}

\* extractItems(await apiGet(path, {...params, pageIndex, pageSize}))
extractItems(index) ==
    IF index < Len(apiPages) THEN apiPages[index + 1] ELSE <<>>

\* lastPage with the loop left on an empty page only
lastPageEmpty(items) == Len(items) = 0

\* items.length < pageSize
lastPage(items) ==
    Len(items) < pageSize

\* fetchPaged has been called: main.ts:198-200
InitFetch ==
    /\ \E lengths \in PageLengths :
          apiPages = [i \in 1..Len(lengths) |->
                         [k \in 1..lengths[i] |-> Item(i - 1, k)]]
    /\ fetchPc = "request"
    /\ pageIndex = 0
    /\ results = <<>>
    /\ requested = <<>>
    /\ apiOrgs = <<>>
    /\ apiLocations = <<>>
    /\ apiEvents = <<>>
    /\ url = <<>>
    /\ PageLoaded
    /\ prior = None
    /\ ret = None
    /\ lastEvent = None
    /\ NoCall

FetchOnly ==
    UNCHANGED <<dataVars, mapVars, phase, url, currentLevelIndex, selectedPath,
                orgDescendantsCache, layerGroup, breadcrumb, backDisabled,
                infoPanel, prior, ret, lastEvent, apiPages, callVars>>

\* the loop issues apiGet for pageIndex and awaits it (main.ts:203)
RequestPage ==
    /\ fetchPc = "request"
    /\ requested' = Append(requested, pageIndex)
    /\ fetchPc' = "await"
    /\ UNCHANGED <<pageIndex, results>>
    /\ FetchOnly

\* the awaited page arrives: main.ts:204-211, or the return at 214
PageArrives ==
    /\ fetchPc = "await"
    /\ \E items \in {extractItems(pageIndex)} :
          /\ results' = results \o items
          /\ IF lastPage(items)
             THEN fetchPc' = "returned" /\ pageIndex' = pageIndex
             ELSE fetchPc' = "request" /\ pageIndex' = pageIndex + 1
    /\ UNCHANGED requested
    /\ FetchOnly

\* the awaited request fails: apiGet throws (main.ts:166-168) and the call
\* rejects
PageFails ==
    /\ fetchPc = "await"
    /\ fetchPc' = "rejected"
    /\ UNCHANGED <<pageIndex, results, requested>>
    /\ FetchOnly

NextFetch ==
    \/ RequestPage
    \/ PageArrives
    \/ PageFails

\* every request the loop awaits is settled in the end
SpecFetch == InitFetch /\ [][NextFetch]_vars /\ WF_vars(NextFetch)

----------------------------------------------------------------------------
(* getDescendantOrgIds and the parent walk of restoreStateFromUrl followed *)
(* step by step over a loaded collection whose parent links are arbitrary: *)
(* an organization may be its own parent, and the links may form a cycle.  *)

MaxGraphOrgs == 3

GraphIds == 1..MaxGraphOrgs
GraphParents == {None} \cup {Some(k) : k \in GraphIds}

\* The depth at which the engine gives up a recursion with a RangeError.
\* Calls nested deeper than there are organizations hold one id twice, and
\* the call of that id inside itself finds what the outer one found.
StackLimit == MaxGraphOrgs + 1

GraphOrgs(parents) ==
    [id \in 1..MaxGraphOrgs |-> Org(id, parents[id], <<"O">>, "region")]

InitGraph ==
    /\ \E parents \in [GraphIds -> GraphParents] : apiOrgs = GraphOrgs(parents)
    /\ apiLocations = <<>>
    /\ apiEvents = <<>>
    /\ url = <<>>
    /\ phase = "ready"
    /\ currentLevelIndex = Num(0)
    /\ selectedPath = <<>>
    /\ orgById = buildOrgById(apiOrgs, <<>>)
    /\ childrenByParent = buildChildrenMap(apiOrgs)
    /\ orgDescendantsCache = EmptyMap
    /\ locationById = EmptyMap
    /\ eventsByOrgId = EmptyMap
    /\ layerGroup = <<>>
    /\ breadcrumb = <<>>
    /\ backDisabled = TRUE
    /\ infoPanel = Placeholder(<<"Loading organizations...">>)
    /\ prior = None
    /\ ret = None
    /\ lastEvent = None
    /\ FetchIdle
    /\ NoCall

CallsOnly ==
    UNCHANGED <<dataVars, fetchVars, mapVars, phase, url, currentLevelIndex,
                selectedPath, layerGroup, breadcrumb, backDisabled, infoPanel,
                prior, lastEvent>>

\* getDescendantOrgIds(orgId) up to its recursion (main.ts:414-424): the call
\* returns at once from the memo or for an unknown id, or it goes on with
\* the children of orgId
enterCall(cache, orgId) ==
    IF MapHas(cache, orgId)
    THEN [returns |-> TRUE, ids |-> cache[orgId], cache |-> cache]
    ELSE IF ~HasOrg(Maps, orgId)
    THEN [returns |-> TRUE, ids |-> <<>>, cache |-> MapSet(cache, orgId, <<>>)]
    ELSE [returns |-> FALSE, ids |-> <<>>, cache |-> cache]

\* the activation of getDescendantOrgIds(orgId) at main.ts:425: the children
\* flatMap has still to visit, and the ids gathered so far
Frame(orgId) ==
    [orgId |-> orgId,
     children |-> MapGet(childrenByParent, orgId, <<>>),
     ids |-> <<orgId>>]

\* what a call started from outside hands back: ret is the call, the ids it
\* returned, and whether it threw instead
Returned(orgId, ids) == Some([orgId |-> orgId, ids |-> ids, thrown |-> FALSE])
Thrown(orgId) == Some([orgId |-> orgId, ids |-> <<>>, thrown |-> TRUE])

\* the frame of the caller once the call for its next child has returned ids
resume(frame, ids) ==
    [frame EXCEPT !.children = Tail(@), !.ids = @ \o ids]

Top == callStack[Len(callStack)]

\* no walk is under way
WalkOver == IF walk = None THEN TRUE ELSE Val(walk).current = None

\* a call of getDescendantOrgIds(orgId) from outside
CallDescendants(orgId) ==
    /\ callStack = <<>>
    /\ WalkOver
    /\ \E e \in {enterCall(orgDescendantsCache, orgId)} :
          /\ orgDescendantsCache' = e.cache
          /\ IF e.returns
             THEN callStack' = <<>> /\ ret' = Returned(orgId, e.ids)
             ELSE callStack' = <<Frame(orgId)>> /\ ret' = None
    /\ UNCHANGED walk
    /\ CallsOnly

\* flatMap calls getDescendantOrgIds(child.id) for the next child
Recurse ==
    /\ callStack # <<>>
    /\ Top.children # <<>>
    /\ \E e \in {enterCall(orgDescendantsCache, Head(Top.children).id)} :
          /\ e.returns \/ Len(callStack) < StackLimit
          /\ orgDescendantsCache' = e.cache
          /\ callStack' =
                IF e.returns
                THEN [callStack EXCEPT ![Len(callStack)] = resume(@, e.ids)]
                ELSE Append(callStack, Frame(Head(Top.children).id))
    /\ UNCHANGED <<ret, walk>>
    /\ CallsOnly

\* the recursion exceeds the engine's stack: a RangeError unwinds every call
StackOverflow ==
    /\ callStack # <<>>
    /\ Top.children # <<>>
    /\ ~enterCall(orgDescendantsCache, Head(Top.children).id).returns
    /\ Len(callStack) >= StackLimit
    /\ callStack' = <<>>
    /\ ret' = Thrown(callStack[1].orgId)
    /\ UNCHANGED <<orgDescendantsCache, walk>>
    /\ CallsOnly

\* flatMap is done: the call memoizes its ids and returns them (main.ts:426-427)
Return ==
    /\ callStack # <<>>
    /\ Top.children = <<>>
    /\ orgDescendantsCache' = MapSet(orgDescendantsCache, Top.orgId, Top.ids)
    /\ IF Len(callStack) = 1
       THEN callStack' = <<>> /\ ret' = Returned(Top.orgId, Top.ids)
       ELSE /\ callStack' =
                  [pop(callStack) EXCEPT ![Len(callStack) - 1] = resume(@, Top.ids)]
            /\ ret' = ret
    /\ UNCHANGED walk
    /\ CallsOnly

\* restoreStateFromUrl finds the organization its org parameter names and
\* starts the walk (main.ts:245-250)
StartWalk(orgId) ==
    /\ callStack = <<>>
    /\ WalkOver
    /\ HasOrg(Maps, orgId)
    /\ walk' = Some([current |-> OrgGet(orgById, Num(orgId)), path |-> <<>>])
    /\ UNCHANGED <<orgDescendantsCache, callStack, ret>>
    /\ CallsOnly

\* one turn of the while loop (main.ts:252-255); the walk is followed for
\* one turn more than there are organizations
WalkStep ==
    /\ walk # None
    /\ Val(walk).current # None
    /\ Len(Val(walk).path) <= MaxGraphOrgs
    /\ walk' = Some([current |->
                         IF TruthyId(Val(Val(walk).current).parentId)
                         THEN OrgGet(orgById, Num(Val(Val(Val(walk).current).parentId)))
                         ELSE None,
                     path |-> <<Val(Val(walk).current)>> \o Val(walk).path])
    /\ UNCHANGED <<orgDescendantsCache, callStack, ret>>
    /\ CallsOnly

NextGraph ==
    \/ \E orgId \in 1..(MaxGraphOrgs + 1) : CallDescendants(orgId)
    \/ Recurse
    \/ StackOverflow
    \/ Return
    \/ \E orgId \in GraphIds : StartWalk(orgId)
    \/ WalkStep

SpecGraph == InitGraph /\ [][NextGraph]_vars

----------------------------------------------------------------------------
(* What the properties speak of, defined from the loaded data alone        *)

Loaded == {orgById[i] : i \in 1..Len(orgById)}
LevelTypes == {levelOrder[i] : i \in 1..Len(levelOrder)}

\* o's parent among the loaded organizations, if it has one
HasParent(o) == o.parentId # None /\ \E q \in Loaded : q.id = Val(o.parentId)
ParentOf(o) == CHOOSE q \in Loaded : q.id = Val(o.parentId)

\* the ids of o and of its ancestors, by parent links
RECURSIVE SelfAndAncestorIds(_)
SelfAndAncestorIds(o) ==
    {o.id} \cup (IF HasParent(o) THEN SelfAndAncestorIds(ParentOf(o)) ELSE {})

\* the descendant set of the organization with this id: itself and every
\* organization that reaches it through parent links
DescendantSet(id) == {o.id : o \in {q \in Loaded : id \in SelfAndAncestorIds(q)}}

\* position of a loaded organization in the load
LoadPosition(o) == CHOOSE i \in 1..Len(apiOrgs) : apiOrgs[i] = o

\* a sequence of organizations without repetition, in entity-load order
InLoadOrder(orgs) ==
    \A i, j \in 1..Len(orgs) :
        i < j => LoadPosition(orgs[i]) < LoadPosition(orgs[j])

Range(seq) == {seq[i] : i \in 1..Len(seq)}

\* The umbrella units by their names as loaded: a sector named
\* 'international' and an area named 'general international area', whatever
\* the case and the surrounding white space.
InternationalSector(o) ==
    /\ o.orgType = "sector"
    /\ o.name \in {International("plain"), International("messy")}

UmbrellaUnit(o) ==
    \/ InternationalSector(o)
    \/ /\ o.orgType = "area"
       /\ o.name \in {GeneralInternationalArea("plain"), GeneralInternationalArea("messy")}

\* The reloaded page has finished init: prior is the state it was reloaded
\* from, and the URL is what updateUrlState wrote for that state.
Reloaded ==
    /\ phase = "ready"
    /\ prior # None
    /\ url = updateUrlState(Val(prior).level, Val(prior).path)

----------------------------------------------------------------------------
\* path ends with A and holds before it A's proper ancestors from the root
\* down, each the parent of the next and none of them the nation; level is
\* one past the position of A's type in levelOrder
RestoresAncestor(A, path, level) ==
    LET n == Len(path)
    IN /\ n >= 1
       /\ path[n] = A
       /\ \A i \in 1..(n - 1) :
             /\ HasParent(path[i + 1])
             /\ path[i] = ParentOf(path[i + 1])
       /\ \A i \in 1..n : path[i].orgType # "nation"
       /\ HasParent(path[1])
             => (ParentOf(path[1]).orgType = "nation" /\ ~HasParent(ParentOf(path[1])))
       /\ level = Num(CHOOSE k \in 1..Len(levelOrder) : levelOrder[k] = A.orgType)

(* C1.  Round trip of the selected ancestor: when a state whose path ends  *)
(* with a loaded organization A of a level type was written to the URL and *)
(* the page reloaded, the restored path ends with A, holds before A its    *)
(* proper ancestors in root-to-A order without the nation, and the         *)
(* restored level index is one past the position of A's type in            *)
(* levelOrder; and so does restoreStateFromUrl, started from level 0 and   *)
(* the empty path, on the URL updateUrlState writes for any path that ends *)
(* with any loaded organization of a level type.                           *)
RoundTripSelectedAncestor ==
    /\ (Reloaded /\ Val(prior).path # <<>>
          /\ Val(prior).path[Len(Val(prior).path)].orgType \in LevelTypes)
       => RestoresAncestor(Val(prior).path[Len(Val(prior).path)],
                           selectedPath, currentLevelIndex)
    /\ phase = "ready"
       => \A A \in {o \in Loaded : o.orgType \in LevelTypes} :
             LET r == restoreStateFromUrl(Maps,
                          updateUrlState(currentLevelIndex, Append(selectedPath, A)),
                          Num(0), <<>>)
             IN RestoresAncestor(A, r.path, r.level)

\* a reloaded page whose restored path holds A below two ancestors, under
\* a nation that is left out
RoundTripSelectedAncestorWitness ==
    /\ Reloaded
    /\ Len(Val(prior).path) >= 1
    /\ Len(selectedPath) = 3
    /\ HasParent(selectedPath[1])
    /\ selectedPath[3] = Val(prior).path[Len(Val(prior).path)]

----------------------------------------------------------------------------
(* C2.  The navigation state survives a reload: once the reloaded page has *)
(* finished init from the URL the previous page wrote, its level and path  *)
(* are those the previous page had.                                        *)
NavigationStateSurvivesReload ==
    Reloaded => /\ currentLevelIndex = Val(prior).level
                /\ selectedPath = Val(prior).path

----------------------------------------------------------------------------
(* The persisted state is malformed: its org parameter, when there is one, *)
(* is not a number or names no loaded organization; otherwise its level    *)
(* parameter is not a number or lies outside the valid index range.        *)
Malformed(u) ==
    IF Truthy(ParamGet(u, "org"))
    THEN \/ parseInt(Val(ParamGet(u, "org"))).nan
         \/ \A o \in Loaded : o.id # parseInt(Val(ParamGet(u, "org"))).v
    ELSE /\ Truthy(ParamGet(u, "level"))
         /\ \/ parseInt(Val(ParamGet(u, "level"))).nan
            \/ parseInt(Val(ParamGet(u, "level"))).v \notin 0..(Len(levelOrder) - 1)

(* C3.  Malformed persisted state fails soft: a page that has finished     *)
(* init from a malformed URL is at level 0 with the empty path.            *)
MalformedStateFailsSoft ==
    (phase = "ready" /\ Malformed(url))
    => (currentLevelIndex = Num(0) /\ selectedPath = <<>>)

----------------------------------------------------------------------------
(* C4.  Whenever the level index is above 0 and the path is not empty, the *)
(* path is as long as the level index.                                     *)
PathLengthIsLevel ==
    (~currentLevelIndex.nan /\ currentLevelIndex.v > 0 /\ selectedPath # <<>>)
    => Len(selectedPath) = currentLevelIndex.v

----------------------------------------------------------------------------
(* C5.  In every reachable state the level index is an integer within      *)
(* 0 .. N-1, N the number of levels of levelOrder.                         *)
LevelInRange ==
    /\ ~currentLevelIndex.nan
    /\ currentLevelIndex.v \in 0..(Len(levelOrder) - 1)

----------------------------------------------------------------------------
\* the organizations getCurrentLevelOrgs returns in the current state
Visible == getCurrentLevelOrgs(Maps, orgDescendantsCache, currentLevelIndex, selectedPath).orgs

(* C6.  At level 0 the visible organizations are the loaded sectors except *)
(* the International sector, in load order.                                *)
InitialViewExcludesInternational ==
    currentLevelIndex = Num(0)
    => /\ Range(Visible) = {o \in Loaded : o.orgType = "sector" /\ ~InternationalSector(o)}
       /\ InLoadOrder(Visible)

----------------------------------------------------------------------------
(* C7.  Above level 0 the visible organizations are, in load order and     *)
(* without repetition: with an empty path, every organization of the       *)
(* level's type; with a path ending in A, the organizations of the level's *)
(* type whose parent is A, except that when A is the International sector  *)
(* they are the organizations of the level's type in A's descendant set.   *)
VisibleSetAboveLevelZero ==
    (~currentLevelIndex.nan /\ currentLevelIndex.v > 0)
    => LET type == LevelAt(currentLevelIndex)
           A == selectedPath[Len(selectedPath)]
       IN /\ InLoadOrder(Visible)
          /\ Range(Visible) =
                IF selectedPath = <<>>
                THEN {o \in Loaded : o.orgType = type}
                ELSE IF InternationalSector(A)
                THEN {o \in Loaded : o.orgType = type /\ o.id \in DescendantSet(A.id)}
                ELSE {o \in Loaded : o.orgType = type /\ o.parentId = Some(A.id)}

\* the region level below the International sector shows a region that is
\* not a child of the sector
VisibleSetAboveLevelZeroWitness ==
    /\ phase = "ready"
    /\ currentLevelIndex = Num(2)
    /\ selectedPath # <<>>
    /\ InternationalSector(selectedPath[Len(selectedPath)])
    /\ \E i \in 1..Len(Visible) :
          Visible[i].parentId # Some(selectedPath[Len(selectedPath)].id)

----------------------------------------------------------------------------
\* the event is associated with the organization of this id
Associated(event, id) == id \in Range(event.parents) \cup Range(event.regions)

\* the event names a location that is loaded with both coordinates
Geolocatable(event) ==
    /\ event.locationId # None
    /\ \E l \in Range(apiLocations) :
          /\ l.id = Val(event.locationId)
          /\ l.latitude # None
          /\ l.longitude # None

\* the events associated with an organization of org's descendant set
EventsBelow(org) ==
    {e \in Range(apiEvents) : \E id \in DescendantSet(org.id) : Associated(e, id)}

(* C9.  For every loaded organization, getOrgPoints yields one point per   *)
(* originating location id, each the coordinates of a loaded location      *)
(* named by an event of its descendant set, and yields no point exactly    *)
(* when no event of its descendant set is geolocatable, whatever the       *)
(* location id is.                                                         *)
PointAggregation ==
    phase = "ready"
    => \A org \in Loaded :
          LET p == getOrgPoints(Maps, orgDescendantsCache, org)
          IN /\ Len(p.points) = Len(p.seen)
             /\ \A i, j \in 1..Len(p.seen) : p.seen[i] = p.seen[j] => i = j
             /\ \A i \in 1..Len(p.seen) :
                   \E e \in EventsBelow(org) :
                      /\ Geolocatable(e)
                      /\ e.locationId = Some(p.seen[i])
                      /\ p.points[i] = Point(Val(locationById[p.seen[i]].latitude),
                                             Val(locationById[p.seen[i]].longitude))
             /\ (p.points = <<>>) <=> ~\E e \in EventsBelow(org) : Geolocatable(e)

----------------------------------------------------------------------------
(* C10.  An umbrella unit that is visible is drawn, and drawn as the star  *)
(* at the fixed anchor, its points never computed; no other organization   *)
(* is drawn as a star.                                                     *)
UmbrellaStarOverride ==
    phase = "ready"
    => /\ \A o \in Range(Visible) :
             UmbrellaUnit(o)
             => /\ \E i \in 1..Len(layerGroup) : layerGroup[i].org = o
                /\ renderLevelShape(Maps, EmptyMap, o)
                     = [shape |-> Some(StarShape(Point(20, 0 - 40), 8, 5)),
                        cache |-> EmptyMap]
       /\ \A i \in 1..Len(layerGroup) :
             IF UmbrellaUnit(layerGroup[i].org)
             THEN layerGroup[i].shape = StarShape(Point(20, 0 - 40), 8, 5)
             ELSE layerGroup[i].shape.kind # "star"

\* the International sector is on the map as a star although its points
\* span a hull of at least three vertices
UmbrellaStarOverrideWitness ==
    /\ phase = "ready"
    /\ \E i \in 1..Len(layerGroup) :
          /\ InternationalSector(layerGroup[i].org)
          /\ layerGroup[i].shape.kind = "star"
          /\ Len(convexHull(getOrgPoints(Maps, EmptyMap, layerGroup[i].org).points)) >= 3

----------------------------------------------------------------------------
(* C8.  Over a loaded forest: a call of getDescendantOrgIds on a loaded    *)
(* organization returns its id and the ids of the organizations reachable  *)
(* from it through child links, each once and nothing else; a call on an   *)
(* id that is not loaded returns the empty list; and after any calls,      *)
(* what is memoized, and what a further call on any id returns, is what a  *)
(* call with an empty memo returns.                                        *)
DescendantSetContract ==
    /\ ret # None
       => IF \E o \in Loaded : o.id = Val(ret).orgId
          THEN /\ \A i, j \in 1..Len(Val(ret).ids) :
                     Val(ret).ids[i] = Val(ret).ids[j] => i = j
               /\ Range(Val(ret).ids) = DescendantSet(Val(ret).orgId)
               /\ Val(ret).orgId \in Range(Val(ret).ids)
          ELSE Val(ret).ids = <<>>
    /\ \A id \in DOMAIN orgDescendantsCache :
          orgDescendantsCache[id] = getDescendantOrgIds(Maps, EmptyMap, id).ids
    /\ \A o \in Loaded :
          getDescendantOrgIds(Maps, orgDescendantsCache, o.id).ids
             = getDescendantOrgIds(Maps, EmptyMap, o.id).ids

\* a call on an organization with a child and a grandchild, answered after
\* other calls had left their results in the memo
DescendantSetContractWitness ==
    /\ ret # None
    /\ Len(Val(ret).ids) = 3
    /\ \E o \in Loaded : o.id = Val(ret).ids[3] /\ o.parentId = Some(Val(ret).ids[2])
    /\ \E o \in Loaded : o.id = Val(ret).ids[2] /\ o.parentId = Some(Val(ret).ids[1])
    /\ \E id \in DOMAIN orgDescendantsCache : orgDescendantsCache[id] = <<>>

----------------------------------------------------------------------------
(* C11.  For an organization that is no umbrella unit, whose aggregated    *)
(* points are the given list: no point gives no shape; one point gives the *)
(* circle buffer centred on it; two points give the circle buffer centred  *)
(* on their arithmetic midpoint; three or more give the convex hull, or no *)
(* shape when the hull has fewer than three vertices.                      *)
PointCountDecision ==
    ret # None
    => LET pts == Val(ret).points
           shape == Val(ret).shape
       IN /\ Val(ret).aggregated = pts
          /\ Len(pts) = 0 => shape = None
          /\ Len(pts) = 1
                => /\ shape # None
                   /\ Val(shape).kind = "circle"
                   /\ Val(shape).center2 = Point(2 * pts[1].lat, 2 * pts[1].lng)
          /\ Len(pts) = 2
                => /\ shape # None
                   /\ Val(shape).kind = "circle"
                   /\ Val(shape).center2.lat = pts[1].lat + pts[2].lat
                   /\ Val(shape).center2.lng = pts[1].lng + pts[2].lng
          /\ Len(pts) >= 3
                => IF Len(Val(ret).hull) < 3
                   THEN shape = None
                   ELSE shape = Some(HullShape(Val(ret).hull))

\* two points with an odd sum of longitudes: the midpoint is neither point
\* and not on the grid
PointCountDecisionWitness ==
    /\ ret # None
    /\ Len(Val(ret).points) = 2
    /\ Val(ret).points[1].lng + Val(ret).points[2].lng = 1
    /\ Val(ret).shape # None

----------------------------------------------------------------------------
\* p lies on the segment from q to r and is neither of them
OnSegment(p, q, r) ==
    /\ p # q /\ p # r
    /\ (r.lng - q.lng) * (p.lat - q.lat) = (r.lat - q.lat) * (p.lng - q.lng)
    /\ (p.lat - q.lat) * (p.lat - r.lat) <= 0
    /\ (p.lng - q.lng) * (p.lng - r.lng) <= 0

\* twice the signed area of the triangle q, r, s
Area2(q, r, s) ==
    (r.lng - q.lng) * (s.lat - q.lat) - (r.lat - q.lat) * (s.lng - q.lng)

\* p is none of q, r, s and lies in the triangle they span, edges included
InTriangle(p, q, r, s) ==
    /\ p # q /\ p # r /\ p # s
    /\ Area2(q, r, s) # 0
    /\ \/ Area2(q, r, p) >= 0 /\ Area2(r, s, p) >= 0 /\ Area2(s, q, p) >= 0
       \/ Area2(q, r, p) <= 0 /\ Area2(r, s, p) <= 0 /\ Area2(s, q, p) <= 0

\* p is a corner of the convex polygon of the point set S: it lies on no
\* segment and in no triangle of other points of S
Corner(p, S) ==
    /\ ~\E q, r \in S : OnSegment(p, q, r)
    /\ ~\E q, r, t \in S : InTriangle(p, q, r, t)

\* every turn of the closed chain of vertices is a strict turn to the same side
SameRotation(h) ==
    \A i \in 1..Len(h) :
        Area2(h[i], h[(i % Len(h)) + 1], h[((i + 1) % Len(h)) + 1]) > 0

(* C12.  convexHull of three or more distinct points that are all corners  *)
(* of their convex polygon, in any order, returns exactly those points,    *)
(* each once, in one rotational order; and of any input, it returns every  *)
(* corner and no point that lies inside the polygon or on an edge between  *)
(* two corners.                                                            *)
HullOfConvexPosition ==
    ret # None
    => LET pts == Val(ret).points
           hull == Val(ret).hull
       IN /\ (/\ Len(pts) >= 3
              /\ \A i, j \in 1..Len(pts) : pts[i] = pts[j] => i = j
              /\ \A p \in Range(pts) : Corner(p, Range(pts)))
             => /\ Range(hull) = Range(pts)
                /\ Len(hull) = Len(pts)
                /\ SameRotation(hull)
          /\ \A p \in Range(pts) : Corner(p, Range(pts)) <=> p \in Range(hull)

\* four corners given in an order that is not a rotation of the result
HullOfConvexPositionWitness ==
    /\ ret # None
    /\ Len(Val(ret).points) = 4
    /\ Len(Val(ret).hull) = 4
    /\ Area2(Val(ret).points[1], Val(ret).points[2], Val(ret).points[3]) < 0
    /\ Area2(Val(ret).points[2], Val(ret).points[3], Val(ret).points[4]) > 0

----------------------------------------------------------------------------
\* the points all lie on one line (or are one point)
Collinear(pts) ==
    \A i, j, k \in 1..Len(pts) : Area2(pts[i], pts[j], pts[k]) = 0

(* C13.  convexHull of 0, 1 or 2 points returns the input unchanged, the   *)
(* same points in the same order; of three or more collinear points,       *)
(* repeated points included, it returns fewer than three vertices.         *)
DegenerateHullInputs ==
    ret # None
    => /\ Len(Val(ret).points) <= 2 => Val(ret).hull = Val(ret).points
       /\ (Len(Val(ret).points) >= 3 /\ Collinear(Val(ret).points))
             => Len(Val(ret).hull) < 3

----------------------------------------------------------------------------
\* the last step handled this UI event
Did(op) == lastEvent # None /\ Val(lastEvent).op = op

\* a click on X at this level is not one of the clicks the handler returns
\* from at once: X is no region and the level is not the deepest
Drills(X, level) ==
    /\ X.orgType # "region"
    /\ ~(~level.nan /\ level.v >= Len(levelOrder) - 1)

----------------------------------------------------------------------------
(* C15.  After a click on an umbrella unit, the level index is two more    *)
(* than the level the unit was displayed at.                               *)
UmbrellaClickRaisesByTwo ==
    (Did("click") /\ UmbrellaUnit(Val(Val(lastEvent).org)))
    => currentLevelIndex = Num(Val(lastEvent).level.v + 2)

(* C15 as amended: after a click on an umbrella unit displayed at a level  *)
(* that is not the deepest, the level index is 2, the level of the         *)
(* regions: two more than level 0, where the International sector is       *)
(* displayed, and one more than level 1, where the General International   *)
(* Area is.                                                                *)
UmbrellaClickJumpsToRegions ==
    (/\ Did("click")
     /\ UmbrellaUnit(Val(Val(lastEvent).org))
     /\ Drills(Val(Val(lastEvent).org), Val(lastEvent).level))
    => /\ currentLevelIndex = Num(2)
       /\ Val(lastEvent).level
            = IF InternationalSector(Val(Val(lastEvent).org)) THEN Num(0) ELSE Num(1)

\* the International sector clicked at level 0
UmbrellaClickJumpsToRegionsWitness ==
    /\ Did("click")
    /\ InternationalSector(Val(Val(lastEvent).org))
    /\ Val(lastEvent).level = Num(0)
    /\ currentLevelIndex = Num(2)

----------------------------------------------------------------------------
(* C16.  After Back, the path is the former path without its last element, *)
(* the elements before it unchanged and in order, and the level index is   *)
(* the former one less one, or 0 if that is below 0.                       *)
BackGoesOneStep ==
    Did("back")
    => LET e == Val(lastEvent)
       IN /\ Len(selectedPath) = Len(e.path) - 1
          /\ \A i \in 1..Len(selectedPath) : selectedPath[i] = e.path[i]
          /\ ~e.level.nan
          /\ currentLevelIndex = Num(IF e.level.v - 1 < 0 THEN 0 ELSE e.level.v - 1)

\* Back from level 2 with a path of two: level 1 with the first of them
BackGoesOneStepWitness ==
    /\ Did("back")
    /\ Val(lastEvent).level = Num(2)
    /\ Len(Val(lastEvent).path) = 2
    /\ currentLevelIndex = Num(1)
    /\ selectedPath = <<Val(lastEvent).path[1]>>

----------------------------------------------------------------------------
(* C17.  After a click on the crumb of the path element at depth d, the    *)
(* path is the first d+1 elements of the former path and the level index   *)
(* is d+1; after a click on the Nation crumb the path is empty and the     *)
(* level index is 0; so the level index is the length of the path, and the *)
(* crumb clicked was not the crumb of the last path element.               *)
BreadcrumbJump ==
    Did("crumb")
    => LET e == Val(lastEvent)
           d == e.arg
       IN /\ d = 0 - 1 \/ d \in 0..(Len(e.path) - 2)
          /\ IF d = 0 - 1
             THEN selectedPath = <<>> /\ currentLevelIndex = Num(0)
             ELSE /\ Len(selectedPath) = d + 1
                  /\ \A i \in 1..(d + 1) : selectedPath[i] = e.path[i]
                  /\ currentLevelIndex = Num(d + 1)
          /\ currentLevelIndex = Num(Len(selectedPath))

\* from a path of two, the crumb of the first element
BreadcrumbJumpWitness ==
    /\ Did("crumb")
    /\ Val(lastEvent).arg = 0
    /\ Len(Val(lastEvent).path) = 2
    /\ selectedPath = <<Val(lastEvent).path[1]>>
    /\ currentLevelIndex = Num(1)

----------------------------------------------------------------------------
(* C18.  After the layer button of level L is clicked, whatever the path   *)
(* and the level were, the path is empty, the level index is L, and the    *)
(* URL holds the level parameter L and nothing else.                       *)
DirectLevelSelection ==
    Did("layer")
    => LET L == Val(lastEvent).arg
       IN /\ selectedPath = <<>>
          /\ currentLevelIndex = Num(L)
          /\ url = << <<"level", CASE L = 0 -> <<"0">>
                                   [] L = 1 -> <<"1">>
                                   [] L = 2 -> <<"2">> >> >>

\* the regions button clicked at another level with an ancestor selected
DirectLevelSelectionWitness ==
    /\ Did("layer")
    /\ Val(lastEvent).arg = 2
    /\ Val(lastEvent).path # <<>>
    /\ Val(lastEvent).level = Num(1)
    /\ ParamGet(Val(lastEvent).url, "org") # None
    /\ currentLevelIndex = Num(2)

----------------------------------------------------------------------------
----------------------------------------------------------------------------
(* C20.  Once a load has failed, the session is in the 'Failed to load     *)
(* data.' state and stays in it whatever UI events follow: the info panel  *)
(* shows the failure, no entity map and no hierarchy index holds anything, *)
(* and no polygon is on the map.                                           *)
LoadFailureIsTerminal ==
    phase = "failed"
    => /\ infoPanel = Placeholder(<<"Failed to load data.">>)
       /\ orgById = <<>>
       /\ childrenByParent = EmptyMap
       /\ locationById = EmptyMap
       /\ eventsByOrgId = EmptyMap
       /\ layerGroup = <<>>

----------------------------------------------------------------------------
(* C21.  The persisted state is restored despite events during loading: a  *)
(* UI event handled while the three loads are pending leaves the level     *)
(* index, the path and the URL as it found them, and the page that has     *)
(* just finished init is in the state restoreStateFromUrl restores from    *)
(* its URL, which is then still the URL of the page load.                  *)
RestoredDespiteEventsWhileLoading ==
    /\ (lastEvent # None /\ Val(lastEvent).phase = "loading")
       => /\ url = Val(lastEvent).url
          /\ currentLevelIndex = Val(lastEvent).level
          /\ selectedPath = Val(lastEvent).path
    /\ (phase = "ready" /\ lastEvent = None)
       => \E s \in {restoreStateFromUrl(Maps, url, Num(0), <<>>)} :
             /\ currentLevelIndex = s.level
             /\ selectedPath = s.path

----------------------------------------------------------------------------
\* the items of the pages with indices 0 .. n - 1, in page order
RECURSIVE ItemsOfPages(_)
ItemsOfPages(n) ==
    IF n = 0 THEN <<>> ELSE ItemsOfPages(n - 1) \o extractItems(n - 1)

\* the page with this index holds fewer items than the page size
ShortPage(index) == Len(extractItems(index)) < pageSize

Fetching == fetchPc \in {"request", "await", "returned", "rejected"}

\* the requests made so far are for the indices 0, 1, 2, ... in this order,
\* the next is made only when the one before it has been answered, and none
\* follows a short page
RequestsInOrder ==
    /\ requested = [i \in 1..Len(requested) |-> i - 1]
    /\ fetchPc = "request" => Len(requested) = pageIndex
    /\ fetchPc \in {"await", "returned", "rejected"} => Len(requested) = pageIndex + 1
    /\ \A i \in 1..(Len(requested) - 1) : ~ShortPage(requested[i])

\* the call has returned: the last page it requested is the first short
\* one, and it returns the items of all the pages it requested, in page order
ReturnsRequestedPages ==
    fetchPc = "returned"
    => /\ ShortPage(requested[Len(requested)])
       /\ results = ItemsOfPages(Len(requested))

(* C22.  Paginated fetch: fetchPaged requests the page indices 0, 1, 2,    *)
(* ... strictly one after another, requests no page after the first one    *)
(* that holds fewer items than the page size, and returns the items of all *)
(* the pages it requested in page order; when the data source serves a     *)
(* short page at some index and every request is settled, the call ends,   *)
(* also when the item count is an exact multiple of the page size.         *)
PaginatedFetch ==
    /\ [](Fetching => (RequestsInOrder /\ ReturnsRequestedPages))
    /\ <>(fetchPc \in {"returned", "rejected"})

\* the call has returned two full pages after it requested a third, empty
\* one: the item count is an exact multiple of the page size
PaginatedFetchWitness ==
    /\ fetchPc = "returned"
    /\ requested = <<0, 1, 2>>
    /\ Len(results) = 2 * pageSize
    /\ extractItems(2) = <<>>

----------------------------------------------------------------------------
(* C23.  The descendant computation fails closed on a malformed parent     *)
(* graph: whatever the parent links, a self-parent and a cycle included,   *)
(* no call of getDescendantOrgIds is entered for an organization whose     *)
(* call is still active, so that every call returns and none ends in a     *)
(* RangeError, and the parent walk of restoreStateFromUrl visits no        *)
(* organization twice, so that it ends within as many turns as there are   *)
(* organizations.                                                          *)
MalformedGraphFailsClosed ==
    /\ \A i, j \in 1..Len(callStack) :
          callStack[i].orgId = callStack[j].orgId => i = j
    /\ ret # None => ~Val(ret).thrown
    /\ walk # None
       => \A i, j \in 1..Len(Val(walk).path) :
             Val(walk).path[i] = Val(walk).path[j] => i = j

=============================================================================
